---- MODULE Spec2Model ----
(***************************************************************************)
(* MetroMind: the collector (src/collector/collector.py) and the phase-5   *)
(* batch job (src/phase5_clean.py), which share one SQLite database in     *)
(* WAL mode.                                                               *)
(*                                                                         *)
(* Instants are integers counted in ticks of 1/TicksPerSecond second, so   *)
(* that sub-second timestamps of the feed exist in the model.  A Python    *)
(* value that holds a timestamp as text is a record [kind, t]; a parsed    *)
(* datetime is a record [ok, t].  Segment ids are positions in the         *)
(* segments table (INTEGER PRIMARY KEY AUTOINCREMENT, one writer).         *)
(* recorded_at_utc, the wall clock at insertion, is not modelled.          *)
(***************************************************************************)
EXTENDS Integers, Sequences, FiniteSets, TLC

VARIABLES
    feed,           \* which reports the upstream feed can serve in this run
    obsLeft,        \* how many more activities the feed serves in this run
    scen,           \* observer: progress of vehicle V1 through the scenario
    vehicle_state,  \* table vehicle_state, as the collector's connection sees it
    segments,       \* table segments, as the collector's connection sees it
    ncommitted,     \* how many rows of segments are committed
    wlock,          \* who holds SQLite's write lock
    pc,             \* where the collector's main loop is
    nacts,          \* len(activities) of the current tick
    idx,            \* how many activities of the tick the for loop has taken
    processed,
    skipped,
    tickRaised,     \* observer: an iteration of this tick raised
    resets,         \* observer: the vehicles reset since their last segment
    last,           \* observer: what the last loop iteration did
    tick0,          \* observer: the store as the running tick found it
    replay,         \* a second store, fed the same observations in another order
    p5pc,           \* the next statement of the phase-5 job ("idle": not running)
    runsLeft,       \* how many more times the phase-5 job is started
    segments_work2, \* temp table segments_work2 of the phase-5 connection
    txn_stats,      \* segment_stats as the phase-5 connection sees it
    txn_clean,      \* segments_clean as the phase-5 connection sees it
    segment_stats,  \* table segment_stats, committed: what any reader sees
    segments_clean, \* table segments_clean, committed: what any reader sees
    mad_z_cutoff,   \* MAD_Z_CUTOFF as the environment of the phase-5 job sets it
    p5done          \* observer: how many runs of the phase-5 job have committed

vars ==
    <<feed, obsLeft, scen, vehicle_state, segments, ncommitted, wlock, pc,
      nacts, idx, processed, skipped, tickRaised, resets, last, tick0, replay,
      p5pc, runsLeft, segments_work2, txn_stats, txn_clean, segment_stats,
      segments_clean, mad_z_cutoff, p5done>>

\* The variables of the phase-5 job
p5vars ==
    <<p5pc, runsLeft, segments_work2, txn_stats, txn_clean, segment_stats,
      segments_clean, mad_z_cutoff, p5done>>

\* The variables of the collector, the write lock apart
cvars ==
    <<feed, obsLeft, scen, vehicle_state, segments, ncommitted, pc, nacts, idx,
      processed, skipped, tickRaised, resets, last, tick0, replay>>

-----------------------------------------------------------------------------
(* Bounds and program constants *)

TicksPerSecond ==
    2

MaxObs ==
    3

MaxBatch ==
    2

MIN_SEGMENT_SECONDS ==
    10

MAX_SEGMENT_SECONDS ==
    3600

Vehicles ==
    {"V1", "V2"}

Stops ==
    {"A", "B", "C"}

Sec(s) ==
    s * TicksPerSecond

\* s seconds and one tick: an instant that is not on a whole second
SecFrac(s) ==
    s * TicksPerSecond + 1

-----------------------------------------------------------------------------
(* Python values *)

Text(k, t) ==
    [kind |-> k, t |-> t]

Iso(t) ==
    Text("iso", t)

NullText ==
    Text("null", 0)

EmptyText ==
    Text("empty", 0)

JunkText ==
    Text("junk", 0)

NonStr ==
    Text("nonstr", 0)

NoneDt ==
    [ok |-> FALSE, t |-> 0]

None ==
    [some |-> FALSE, val |-> ""]

Some(x) ==
    [some |-> TRUE, val |-> x]

\* Python truthiness of an optional string
Truthy(o) ==
    o.some /\ o.val # ""

\* a or b
OrElse(a, b) ==
    IF Truthy(a) THEN a ELSE b

Absent ==
    [shape |-> "absent", val |-> ""]

Plain(x) ==
    [shape |-> "plain", val |-> x]

Wrapped(x) ==
    [shape |-> "value", val |-> x]

SingleKey(x) ==
    [shape |-> "single", val |-> x]

MultiKey ==
    [shape |-> "multi", val |-> ""]

EmptyDict ==
    [shape |-> "emptydict", val |-> ""]

-----------------------------------------------------------------------------
(* HELPERS *)

unwrap(v) ==
    IF v.shape = "absent" THEN None
    ELSE IF v.shape = "value" THEN Some(v.val)
    ELSE IF v.shape = "single" THEN Some(v.val)
    ELSE IF v.shape \in {"multi", "emptydict"} THEN None
    ELSE Some(v.val)

parse_iso8601(ts) ==
    IF ts.kind \in {"null", "empty", "nonstr"} THEN NoneDt
    ELSE IF ts.kind = "iso" THEN [ok |-> TRUE, t |-> ts.t]
    ELSE NoneDt

utc_iso(dt) ==
    Iso(dt.t)

\* int(x) of Python: truncation toward zero of d ticks to whole seconds
IntSeconds(d) ==
    IF d >= 0 THEN d \div TicksPerSecond ELSE -((-d) \div TicksPerSecond)

-----------------------------------------------------------------------------
(* DB *)

Row(route, dir, trip, stop, seen) ==
    [route_id |-> route, direction_id |-> dir, trip_id |-> trip,
     current_stop_id |-> stop, current_stop_first_seen_utc |-> seen]

\* row[5] or "": NULL and '' both load as ''
OrEmpty(txt) ==
    IF txt.kind = "null" THEN EmptyText ELSE txt

load_vehicle_state(state, vehicle_ref) ==
    IF vehicle_ref \notin DOMAIN state
    THEN [found |-> FALSE, row |-> Row("", "", "", "", EmptyText)]
    ELSE [found |-> TRUE,
          row |-> [state[vehicle_ref] EXCEPT
                     !.current_stop_first_seen_utc = OrEmpty(@)]]

\* Mutant: an UPDATE without its key, which overwrites every row
upsert_every_row(state, vehicle_ref, route, dir, trip, stop_id, first_seen_utc) ==
    [v \in DOMAIN state \cup {vehicle_ref} |->
        Row(route, dir, trip, stop_id, first_seen_utc)]

\* Mutant: ON CONFLICT ... DO UPDATE leaves current_stop_id out of its SET list
upsert_keeps_stop(state, vehicle_ref, route, dir, trip, stop_id, first_seen_utc) ==
    [v \in DOMAIN state \cup {vehicle_ref} |->
        IF v # vehicle_ref THEN state[v]
        ELSE IF v \in DOMAIN state
             THEN Row(route, dir, trip, state[v].current_stop_id, first_seen_utc)
             ELSE Row(route, dir, trip, stop_id, first_seen_utc)]

upsert_vehicle_state(state, vehicle_ref, route, dir, trip, stop_id, first_seen_utc) ==
    [v \in DOMAIN state \cup {vehicle_ref} |->
        IF v = vehicle_ref THEN Row(route, dir, trip, stop_id, first_seen_utc)
        ELSE state[v]]

insert_segment(segs, route, dir, vehicle_ref, trip, from_stop, to_stop, depart_utc, arrive_utc, travel_seconds) ==
    Append(segs,
           [route_id |-> route, direction_id |-> dir, vehicle_ref |-> vehicle_ref,
            trip_id |-> trip, from_stop_id |-> from_stop, to_stop_id |-> to_stop,
            depart_time_utc |-> depart_utc, arrive_time_utc |-> arrive_utc,
            travel_time_seconds |-> travel_seconds])

-----------------------------------------------------------------------------
(* EXTRACTION *)

Activity(at, veh, line, pub, dir, trip, stop) ==
    [RecordedAtTime |-> at, VehicleRef |-> veh, LineRef |-> line,
     PublishedLineName |-> pub, DirectionRef |-> dir,
     DatedVehicleJourneyRef |-> trip, StopPointRef |-> stop]

Obs(vehicle_ref, route, dir, trip, next_stop, at) ==
    [ok |-> TRUE, vehicle_ref |-> vehicle_ref, route_id |-> route,
     direction_id |-> dir, trip_id |-> trip, next_stop_id |-> next_stop,
     recorded_at_dt |-> at]

NoObs ==
    [ok |-> FALSE, vehicle_ref |-> "", route_id |-> "", direction_id |-> "",
     trip_id |-> "", next_stop_id |-> "", recorded_at_dt |-> NoneDt]

\* Mutant: the test forgets next_stop_id
RequiredWithoutStop(recorded_at, vehicle_ref, next_stop_id) ==
    recorded_at.ok /\ Truthy(vehicle_ref)

\* the test of collector.py:301
Required(recorded_at, vehicle_ref, next_stop_id) ==
    recorded_at.ok /\ Truthy(vehicle_ref) /\ Truthy(next_stop_id)

extract_fields(activity) ==
    LET recorded_at == parse_iso8601(activity.RecordedAtTime)
        vehicle_ref == unwrap(activity.VehicleRef)
        route_id == OrElse(unwrap(activity.LineRef),
                           OrElse(unwrap(activity.PublishedLineName), Some("")))
        direction_id_val == unwrap(activity.DirectionRef)
        direction_id == IF direction_id_val.some THEN direction_id_val.val ELSE ""
        trip_id == OrElse(unwrap(activity.DatedVehicleJourneyRef), Some(""))
        next_stop_id == unwrap(activity.StopPointRef)
    IN  IF ~Required(recorded_at, vehicle_ref, next_stop_id) THEN NoObs
        ELSE Obs(vehicle_ref.val, route_id.val, direction_id, trip_id.val,
                 next_stop_id.val, recorded_at)

-----------------------------------------------------------------------------
(* CORE LOGIC *)

\* x or y, on strings
OrStr(x, y) ==
    IF x # "" THEN x ELSE y

\* Mutant: the upper bound is not tested
OutOfBoundsBelowOnly(travel_seconds) ==
    travel_seconds < MIN_SEGMENT_SECONDS

OutOfBounds(travel_seconds) ==
    travel_seconds < MIN_SEGMENT_SECONDS \/ travel_seconds > MAX_SEGMENT_SECONDS

\* The statements of handle_observation that reach the store, and the one
\* that raises: fp = "none" (none does), "load", "insert", "upsert", or
\* "locked" (the first writing statement finds the database locked).
Raises(fp, stmt) ==
    fp = stmt \/ (fp = "locked" /\ stmt \in {"insert", "upsert"})

Outcome(state, segs, branch, wrote) ==
    [state |-> state, segments |-> segs, branch |-> branch, wrote |-> wrote]

\* upsert_vehicle_state(..., next_stop_id, recorded_at_utc), the call made at
\* collector.py:318, 332, 339 and 357
Restart(state, obs) ==
    upsert_vehicle_state(state, obs.vehicle_ref, obs.route_id, obs.direction_id,
                         obs.trip_id, obs.next_stop_id, utc_iso(obs.recorded_at_dt))

\* collector.py:318, first sighting
FirstSighting(state, obs) ==
    Restart(state, obs)

\* Mutant: the refresh moves the anchor to the new observation
RefreshMovesAnchor(state, obs, prev) ==
    upsert_vehicle_state(state, obs.vehicle_ref, obs.route_id, obs.direction_id,
                         obs.trip_id, prev.current_stop_id,
                         utc_iso(obs.recorded_at_dt))

\* collector.py:326, the stop has not changed
Refresh(state, obs, prev) ==
    upsert_vehicle_state(state, obs.vehicle_ref, obs.route_id, obs.direction_id,
                         obs.trip_id, prev.current_stop_id,
                         prev.current_stop_first_seen_utc)

\* collector.py:332, broken state
ResetBroken(state, obs) ==
    Restart(state, obs)

\* Mutant: the implausible duration is dropped without resynchronizing
ResyncForgotten(state, obs) ==
    state

\* collector.py:339, implausible duration
Resync(state, obs) ==
    Restart(state, obs)

\* Mutant: the state is not advanced after the segment is saved
AdvanceForgotten(state, obs) ==
    state

\* collector.py:357, after the segment is saved
Advance(state, obs) ==
    Restart(state, obs)

Emit(segs, obs, prev, travel_seconds) ==
    insert_segment(segs,
                   OrStr(prev.route_id, obs.route_id),
                   OrStr(prev.direction_id, obs.direction_id),
                   obs.vehicle_ref,
                   OrStr(prev.trip_id, obs.trip_id),
                   prev.current_stop_id, obs.next_stop_id,
                   prev.current_stop_first_seen_utc,
                   utc_iso(obs.recorded_at_dt),
                   travel_seconds)

handle_observation(state, segs, obs, fp) ==
    LET loaded == load_vehicle_state(state, obs.vehicle_ref)
        prev == loaded.row
        prev_stop == prev.current_stop_id
        prev_first_seen_dt == parse_iso8601(prev.current_stop_first_seen_utc)
        travel_seconds == IntSeconds(obs.recorded_at_dt.t - prev_first_seen_dt.t)
        raised == Outcome(state, segs, "raised", FALSE)
    IN  IF Raises(fp, "load") THEN raised
        ELSE IF ~loaded.found \/ prev.current_stop_id = "" THEN
            IF Raises(fp, "upsert") THEN raised
            ELSE Outcome(FirstSighting(state, obs), segs, "first", TRUE)
        ELSE IF obs.next_stop_id = prev_stop THEN
            IF Raises(fp, "upsert") THEN raised
            ELSE Outcome(Refresh(state, obs, prev), segs, "same", TRUE)
        ELSE IF ~prev_first_seen_dt.ok THEN
            IF Raises(fp, "upsert") THEN raised
            ELSE Outcome(ResetBroken(state, obs), segs, "broken", TRUE)
        ELSE IF OutOfBounds(travel_seconds) THEN
            IF Raises(fp, "upsert") THEN raised
            ELSE Outcome(Resync(state, obs), segs, "bounds", TRUE)
        ELSE IF Raises(fp, "insert") THEN raised
        ELSE IF Raises(fp, "upsert") THEN
            Outcome(state, Emit(segs, obs, prev, travel_seconds), "half", TRUE)
        ELSE Outcome(Advance(state, obs), Emit(segs, obs, prev, travel_seconds),
                     "emit", TRUE)

-----------------------------------------------------------------------------
(* The upstream feed *)

Times ==
    {Sec(0), Sec(2), Sec(40), SecFrac(3640)}

Report(v, s, t) ==
    Activity(Iso(t), Plain(v), Plain("R1"), Absent, Plain("0"), Plain("T1"), Plain(s))

GoodReports ==
    {Report("V1", s, t) : s \in Stops, t \in Times}
    \cup {Report("V2", "A", Sec(0)), Report("V2", "B", Sec(40))}

\* Well-formed reports in the other shapes unwrap() accepts, and reports that
\* lack optional fields
ShapedReports ==
    { Activity(Iso(Sec(40)), Wrapped("V1"), Absent, SingleKey("R2"), Wrapped("1"),
               EmptyDict, Wrapped("B")),
      Activity(Iso(Sec(40)), Plain("V2"), MultiKey, Absent, Plain("0"), Plain("T1"),
               SingleKey("B")),
      Activity(Iso(Sec(40)), Plain("V2"), Plain("R1"), Absent, Absent, Plain("T1"),
               Plain("B")),
      Activity(Iso(Sec(40)), Plain("V2"), Plain("R1"), Absent, Plain("0"), Absent,
               Plain("B")),
      Activity(Iso(Sec(0)), Plain("V2"), Absent, Absent, Absent, Absent, Plain("A")) }

\* Reports that lack one mandatory field
MalformedReports ==
    {Activity(at, Plain("V1"), Plain("R1"), Absent, Plain("0"), Plain("T1"), Plain("B")) :
        at \in {NullText, EmptyText, JunkText, NonStr}}
    \cup
    {Activity(Iso(Sec(40)), veh, Plain("R1"), Absent, Plain("0"), Plain("T1"), Plain("B")) :
        veh \in {Absent, MultiKey, EmptyDict, Plain("")}}
    \cup
    {Activity(Iso(Sec(40)), Plain("V1"), Plain("R1"), Absent, Plain("0"), Plain("T1"), stop) :
        stop \in {Absent, MultiKey, EmptyDict, Plain("")}}

GeneralFeed ==
    GoodReports \cup ShapedReports \cup MalformedReports

Scenario ==
    << [stop |-> "A", at |-> Sec(0)], [stop |-> "B", at |-> Sec(40)],
       [stop |-> "B", at |-> Sec(70)], [stop |-> "C", at |-> Sec(500)] >>

ScenarioFeed ==
    {Report("V1", Scenario[k].stop, Scenario[k].at) : k \in DOMAIN Scenario}
    \cup {Report("V2", "A", Sec(0)), Report("V2", "B", Sec(40))}
    \cup {Activity(Iso(Sec(40)), Plain("V1"), Plain("R1"), Absent, Plain("0"),
                   Plain("T1"), Absent)}

\* The reports served while the phase-5 job runs beside the collector
BatchFeed ==
    { Report("V1", "B", Sec(40)), Report("V1", "A", Sec(100)),
      Report("V1", "B", Sec(2000)),
      Report("V2", "B", Sec(100)) }

\* An activity whose MonitoredVehicleJourney is a JSON array or a JSON string
Unreadable(kind) ==
    [RecordedAtTime |-> Iso(Sec(40)), MonitoredVehicleJourney |-> kind]

\* extract_fields raises AttributeError: `mvj.get` (collector.py:288) on a
\* value that is truthy and has no method get
extract_fields_raises(activity) ==
    /\ "MonitoredVehicleJourney" \in DOMAIN activity
    /\ activity.MonitoredVehicleJourney \in {"array", "string"}

\* The activities of a batch in which each vehicle is seen at two stops
OrderFeed ==
    { Report(v, "B", Sec(40)) : v \in Vehicles }
    \cup { Report(v, "A", Sec(100)) : v \in Vehicles }
    \cup { Unreadable("array") }

Feed ==
    IF feed = "scenario" THEN ScenarioFeed
    ELSE IF feed = "batch" THEN BatchFeed
    ELSE GeneralFeed

-----------------------------------------------------------------------------
(* MAIN LOOP *)

NoLast ==
    [vehicle |-> "", branch |-> "none", stop |-> "", at |-> 0]

\* What the observer keeps of an iteration: the vehicle, stop and instant of
\* the observation, and the branch handle_observation took
Last(obs, branch) ==
    IF branch \in {"rejected", "raised"}
    THEN [vehicle |-> obs.vehicle_ref, branch |-> branch, stop |-> "", at |-> 0]
    ELSE [vehicle |-> obs.vehicle_ref, branch |-> branch,
          stop |-> obs.next_stop_id, at |-> obs.recorded_at_dt.t]

\* The observer of the scenario: -1 once vehicle V1 has left the script
ScenNext(s, obs, branch) ==
    IF s < 0 \/ ~obs.ok \/ obs.vehicle_ref # "V1" THEN s
    ELSE IF branch \notin {"raised", "half"} /\ s < Len(Scenario)
            /\ Scenario[s + 1] = [stop |-> obs.next_stop_id, at |-> obs.recorded_at_dt.t]
         THEN s + 1
         ELSE -1

\* The observer of resets: first sighting, broken state, implausible duration
ResetsNext(rs, obs, branch) ==
    IF branch \in {"first", "broken", "bounds"} THEN rs \cup {obs.vehicle_ref}
    ELSE IF branch \in {"emit", "half"} THEN rs \ {obs.vehicle_ref}
    ELSE rs

Min(a, b) ==
    IF a <= b THEN a ELSE b

\* No tick is running
NoTick ==
    [state |-> << >>, nsegs |-> -1]

\* What the observer keeps of the store when a tick begins
TickBegin(state, segs) ==
    [state |-> state, nsegs |-> Len(segs)]

\* payload = fetch_vehicle_monitoring(); activities = extract_vehicle_activities(payload)
FetchOK ==
    /\ pc = "fetch"
    /\ tick0' = TickBegin(vehicle_state, segments)
    /\ \E n \in 0..Min(obsLeft, MaxBatch) : nacts' = n
    /\ idx' = 0
    /\ processed' = 0
    /\ skipped' = 0
    /\ tickRaised' = FALSE
    /\ pc' = "loop"
    /\ UNCHANGED replay
    /\ UNCHANGED <<feed, obsLeft, scen, vehicle_state, segments, ncommitted, wlock,
                   resets, last>>
    /\ UNCHANGED p5vars

\* fetch_vehicle_monitoring() raises: control goes to the except clauses
FetchFail ==
    /\ pc = "fetch"
    /\ pc' = "failed"
    /\ tick0' = TickBegin(vehicle_state, segments)
    /\ UNCHANGED replay
    /\ UNCHANGED <<feed, obsLeft, scen, vehicle_state, segments, ncommitted, wlock,
                   nacts, idx, processed, skipped, tickRaised, resets, last>>
    /\ UNCHANGED p5vars

\* The failing statements an iteration can meet
FailPoints ==
    IF wlock = "phase5" THEN {"load", "locked"}
    ELSE {"none", "load", "insert", "upsert"}

\* The branches in which handle_observation returns
Returned ==
    {"first", "same", "broken", "bounds", "emit"}

\* Mutant: an iteration that raises ends the for loop
NextIndexBreaks(i, n, branch) ==
    IF branch \in {"raised", "half"} THEN n ELSE i + 1

\* Where the for loop goes after an iteration: `continue` in every case
\* (collector.py:400, 406)
NextIndex(i, n, branch) ==
    i + 1

\* One iteration of `for act in activities`, on the collector's variables
Iterate(act, fp) ==
    /\ pc = "loop"
    /\ idx < nacts
    /\ LET obs == extract_fields(act)
           out == IF obs.ok THEN handle_observation(vehicle_state, segments, obs, fp)
                  ELSE Outcome(vehicle_state, segments, "rejected", FALSE)
       IN  /\ vehicle_state' = out.state
           /\ segments' = out.segments
           /\ wlock' = IF out.wrote THEN "collector" ELSE wlock
           /\ processed' = IF out.branch \in Returned THEN processed + 1 ELSE processed
           /\ skipped' = IF out.branch \in Returned THEN skipped ELSE skipped + 1
           /\ tickRaised' = (tickRaised \/ out.branch \in {"raised", "half"})
           /\ last' = Last(obs, out.branch)
           /\ resets' = ResetsNext(resets, obs, out.branch)
           /\ scen' = ScenNext(scen, obs, out.branch)
           /\ idx' = NextIndex(idx, nacts, out.branch)
    /\ obsLeft' = obsLeft - 1
    /\ UNCHANGED <<feed, ncommitted, pc, nacts, tick0>>
    /\ UNCHANGED p5vars

ProcessActivity(act, fp) ==
    /\ Iterate(act, fp)
    /\ UNCHANGED replay

\* The for loop is over: conn.commit(), the tick's log line, then time.sleep
CommitTick ==
    /\ pc = "loop"
    /\ idx = nacts
    /\ ncommitted' = Len(segments)
    /\ wlock' = IF wlock = "collector" THEN "free" ELSE wlock
    /\ pc' = "sleep"
    /\ tick0' = NoTick
    /\ UNCHANGED replay
    /\ UNCHANGED <<feed, obsLeft, scen, vehicle_state, segments, nacts, idx,
                   processed, skipped, tickRaised, resets, last>>
    /\ UNCHANGED p5vars

\* Mutant: the except clause ends the process
AfterExceptExit ==
    "exit"

\* Where the loop goes after an except clause logged the error: time.sleep,
\* as after a tick that did not fail
AfterExcept ==
    "sleep"

\* A statement of the try block outside the inner try raises after the fetch
\* (collector.py:382-409): control goes to the except clauses.  Nothing is
\* rolled back, the transaction of the tick stays open.
TickRaises ==
    /\ pc = "loop"
    /\ pc' = "failed"
    /\ UNCHANGED replay
    /\ UNCHANGED <<feed, obsLeft, scen, vehicle_state, segments, ncommitted, wlock,
                   nacts, idx, processed, skipped, tickRaised, resets, last, tick0>>
    /\ UNCHANGED p5vars

\* except requests.RequestException / except Exception: logging.error
LogError ==
    /\ pc = "failed"
    /\ pc' = AfterExcept
    /\ tick0' = NoTick
    /\ UNCHANGED replay
    /\ UNCHANGED <<feed, obsLeft, scen, vehicle_state, segments, ncommitted, wlock,
                   nacts, idx, processed, skipped, tickRaised, resets, last>>
    /\ UNCHANGED p5vars

\* time.sleep(POLL_SECONDS) returns
Sleep ==
    /\ pc = "sleep"
    /\ pc' = "fetch"
    /\ UNCHANGED replay
    /\ UNCHANGED <<feed, obsLeft, scen, vehicle_state, segments, ncommitted, wlock,
                   nacts, idx, processed, skipped, tickRaised, resets, last, tick0>>
    /\ UNCHANGED p5vars

Process ==
    \E act \in Feed, fp \in FailPoints : ProcessActivity(act, fp)

\* extract_fields(act) raises (collector.py:397, outside the inner try): the
\* for loop is left, the activities it had not taken are never handled, and
\* control goes to `except Exception` of main
ExtractRaises(rest) ==
    /\ pc = "loop"
    /\ idx < nacts
    /\ rest = nacts - idx
    /\ obsLeft' = obsLeft - rest
    /\ pc' = "failed"
    /\ UNCHANGED <<feed, scen, vehicle_state, segments, ncommitted, wlock, nacts,
                   idx, processed, skipped, tickRaised, resets, last, tick0, replay>>
    /\ UNCHANGED p5vars

\* One batch in two orders.  replay.first is the order in which the feed serves
\* the batch to the collector; replay.second is another order of the same
\* activities, which the for loop of main takes on a second store that starts
\* from the same rows.  Each activity carries the statement of its handling
\* that fails, if one does.
NoReplay ==
    [on |-> FALSE, first |-> << >>, second |-> << >>, pos |-> 0, left |-> FALSE,
     state |-> << >>, segments |-> << >>]

\* The vehicle an activity of the batch is an observation of ("": of none)
VehicleOf(e) ==
    IF extract_fields_raises(e.act) THEN "" ELSE extract_fields(e.act).vehicle_ref

\* The orders of a batch that keep the order of each vehicle's observations
Orders(batch) ==
    LET n == Len(batch)
        Bijections == {f \in [1..n -> 1..n] : \A i, j \in 1..n : i # j => f[i] # f[j]}
        Keeps(f) == \A i, j \in 1..n :
                        (/\ i < j
                         /\ VehicleOf(batch[f[i]]) # ""
                         /\ VehicleOf(batch[f[i]]) = VehicleOf(batch[f[j]]))
                        => f[i] < f[j]
    IN  {[i \in 1..n |-> batch[f[i]]] : f \in {g \in Bijections : Keeps(g)}}

\* The activity the feed serves next
Served ==
    replay.first[Len(replay.first) - obsLeft + 1]

ProcessServed ==
    /\ replay.on
    /\ obsLeft > 0
    /\ IF extract_fields_raises(Served.act)
       THEN \E rest \in 1..MaxBatch : ExtractRaises(rest)
       ELSE Iterate(Served.act, Served.fp) /\ UNCHANGED replay

\* One iteration of `for act in activities` on the second store
ReplayIterate ==
    /\ replay.on
    /\ ~replay.left
    /\ replay.pos < Len(replay.second)
    /\ LET e == replay.second[replay.pos + 1]
           obs == extract_fields(e.act)
           out == IF obs.ok
                  THEN handle_observation(replay.state, replay.segments, obs, e.fp)
                  ELSE Outcome(replay.state, replay.segments, "rejected", FALSE)
       IN  replay' = IF extract_fields_raises(e.act)
                     THEN [replay EXCEPT !.left = TRUE]
                     ELSE [replay EXCEPT !.state = out.state,
                                         !.segments = out.segments,
                                         !.pos = @ + 1]
    /\ UNCHANGED <<feed, obsLeft, scen, vehicle_state, segments, ncommitted, wlock,
                   pc, nacts, idx, processed, skipped, tickRaised, resets, last,
                   tick0>>
    /\ UNCHANGED p5vars

-----------------------------------------------------------------------------
(* PHASE 5: src/phase5_clean.py *)

MaxRuns ==
    2

MIN_SECONDS ==
    10

MAX_SECONDS ==
    1800

MAD_Z_CUTOFF ==
    6

\* The REAL columns of segment_stats hold multiples of a quarter of a second
\* (an average of two integers, then an average of two of its deviations):
\* the model keeps RealScale times their value
RealScale ==
    4

\* strftime('%w', arrive_time_utc), 0=Sun..6=Sat; instant 0 is a Monday, 00:00 UTC
sqlite_dow(arrive_time_utc) ==
    ((arrive_time_utc.t \div (86400 * TicksPerSecond)) + 1) % 7

\* strftime('%H', arrive_time_utc)
hour_of_day(arrive_time_utc) ==
    (arrive_time_utc.t \div (3600 * TicksPerSecond)) % 24

\* 0=Mon..6=Sun
day_of_week(dow) ==
    IF dow = 0 THEN 6 ELSE dow - 1

DayNames ==
    <<"Mon", "Tue", "Wed", "Thu", "Fri", "Sat", "Sun">>

Digits ==
    <<"0", "1", "2", "3", "4", "5", "6", "7", "8", "9">>

\* the day's name || '-' || printf('%02d', hour_of_day)
time_bucket(dow, hour) ==
    DayNames[dow + 1] \o "-" \o Digits[(hour \div 10) + 1] \o Digits[(hour % 10) + 1]

\* Temp table segments_work: the rows of segments with their id and the derived
\* time categories.  The collector stores no NULL, so COALESCE(x, '') and
\* travel_time_seconds IS NOT NULL keep every row as it is.
segments_work(segs) ==
    { [id |-> i,
       route_id |-> segs[i].route_id,
       direction_id |-> segs[i].direction_id,
       vehicle_ref |-> segs[i].vehicle_ref,
       trip_id |-> segs[i].trip_id,
       from_stop_id |-> segs[i].from_stop_id,
       to_stop_id |-> segs[i].to_stop_id,
       depart_time_utc |-> segs[i].depart_time_utc,
       arrive_time_utc |-> segs[i].arrive_time_utc,
       travel_time_seconds |-> segs[i].travel_time_seconds,
       day_of_week |-> day_of_week(sqlite_dow(segs[i].arrive_time_utc)),
       hour_of_day |-> hour_of_day(segs[i].arrive_time_utc),
       time_bucket |-> time_bucket(day_of_week(sqlite_dow(segs[i].arrive_time_utc)),
                                   hour_of_day(segs[i].arrive_time_utc))] :
      i \in 1..Len(segs) }

\* Mutant: the hard filter lets every row through
NoHardFilter(work) ==
    work

\* WHERE travel_time_seconds BETWEEN MIN_SECONDS AND MAX_SECONDS
HardFilter(work) ==
    {w \in work : w.travel_time_seconds >= MIN_SECONDS
                  /\ w.travel_time_seconds <= MAX_SECONDS}

\* The grouping key (route, dir, from, to, day, hour)
GroupKey(w) ==
    [route_id |-> w.route_id, direction_id |-> w.direction_id,
     from_stop_id |-> w.from_stop_id, to_stop_id |-> w.to_stop_id,
     day_of_week |-> w.day_of_week, hour_of_day |-> w.hour_of_day]

Group(work2, key) ==
    {w \in work2 : GroupKey(w) = key}

\* base.x of each row of a group, as a REAL
X(group) ==
    [w \in group |-> RealScale * w.travel_time_seconds]

\* The value of the row that ROW_NUMBER() OVER (ORDER BY f) numbers r
AtRank(f, r) ==
    CHOOSE v \in {f[w] : w \in DOMAIN f} :
        /\ Cardinality({w \in DOMAIN f : f[w] < v}) < r
        /\ r <= Cardinality({w \in DOMAIN f : f[w] <= v})

\* Mutant: only the row numbered (n + 1) / 2 is taken
MiddleLow(f, n) ==
    AtRank(f, (n + 1) \div 2)

\* Mutant: the two quotients are rounded up, as real division and a ceiling
\* would; a row number above n matches no row
MiddleCeil(f, n) ==
    LET lo == (n + 2) \div 2
        hi == (n + 3) \div 2
    IN  IF lo = hi \/ hi > n THEN AtRank(f, lo)
        ELSE (AtRank(f, lo) + AtRank(f, hi)) \div 2

\* AVG(f) over the rows numbered (n + 1) / 2 and (n + 2) / 2
MiddleAvg(f, n) ==
    LET lo == (n + 1) \div 2
        hi == (n + 2) \div 2
    IN  IF lo = hi THEN AtRank(f, lo) ELSE (AtRank(f, lo) + AtRank(f, hi)) \div 2

Abs(x) ==
    IF x >= 0 THEN x ELSE -x

\* Mutant: the median is not subtracted
AbsDevFromZero(f, median) ==
    [w \in DOMAIN f |-> Abs(f[w])]

\* absdev.d of each row of a group
AbsDev(f, median) ==
    [w \in DOMAIN f |-> Abs(f[w] - median)]

\* Mutant: the rank is rounded to the nearest integer (and is 1 at least)
NearestTenths(n, tenths) ==
    IF (n * tenths + 5) \div 10 < 1 THEN 1 ELSE (n * tenths + 5) \div 10

\* CAST(CEIL(n * tenths / 10) AS INTEGER)
CeilTenths(n, tenths) ==
    (n * tenths + 9) \div 10

\* The row of segment_stats of one group
StatsRow(key, group) ==
    LET n == Cardinality(group)
        x == X(group)
        median == MiddleAvg(x, n)
        rep == CHOOSE w \in group : TRUE
    IN  [route_id |-> key.route_id, direction_id |-> key.direction_id,
         from_stop_id |-> key.from_stop_id, to_stop_id |-> key.to_stop_id,
         day_of_week |-> key.day_of_week, hour_of_day |-> key.hour_of_day,
         time_bucket |-> rep.time_bucket,
         sample_count |-> n,
         median_seconds |-> median,
         mad_seconds |-> MiddleAvg(AbsDev(x, median), n),
         p10_seconds |-> AtRank(x, CeilTenths(n, 1)),
         p90_seconds |-> AtRank(x, CeilTenths(n, 9))]

\* Mutant: the statistics are computed from the segments table as it is when
\* the INSERT runs, not from the temp table
StatsOfSegments(work2) ==
    LET now == HardFilter(segments_work(SubSeq(segments, 1, ncommitted)))
    IN  {StatsRow(key, Group(now, key)) : key \in {GroupKey(w) : w \in now}}

\* The SELECT of the INSERT into segment_stats
Stats(work2) ==
    {StatsRow(key, Group(work2, key)) : key \in {GroupKey(w) : w \in work2}}

\* INSERT OR REPLACE, on the primary key of segment_stats
InsertOrReplace(table, rows) ==
    {t \in table : \A r \in rows : GroupKey(t) # GroupKey(r)} \cup rows

\* Mutant: a z-score equal to the cutoff is flagged too
is_outlier_at_cutoff(w, s) ==
    IF s.mad_seconds = 0 THEN 0
    ELSE IF 6745 * Abs(RealScale * w.travel_time_seconds - s.median_seconds)
                >= 10000 * mad_z_cutoff * s.mad_seconds
         THEN 1
         ELSE 0

\* Mutant: the z-score of the duration itself, not of its distance to the median
is_outlier_of_duration(w, s) ==
    IF s.mad_seconds = 0 THEN 0
    ELSE IF 6745 * Abs(RealScale * w.travel_time_seconds)
                > 10000 * mad_z_cutoff * s.mad_seconds
         THEN 1
         ELSE 0

\* The CASE of is_outlier: ABS(0.6745 * (x - median) / mad) > MAD_Z_CUTOFF, with
\* the cutoff the job was started with
is_outlier(w, s) ==
    IF s.mad_seconds = 0 THEN 0
    ELSE IF 6745 * Abs(RealScale * w.travel_time_seconds - s.median_seconds)
                > 10000 * mad_z_cutoff * s.mad_seconds
         THEN 1
         ELSE 0

CleanRow(w, s) ==
    [id |-> w.id, route_id |-> w.route_id, direction_id |-> w.direction_id,
     vehicle_ref |-> w.vehicle_ref, trip_id |-> w.trip_id,
     from_stop_id |-> w.from_stop_id, to_stop_id |-> w.to_stop_id,
     depart_time_utc |-> w.depart_time_utc, arrive_time_utc |-> w.arrive_time_utc,
     travel_time_seconds |-> w.travel_time_seconds,
     day_of_week |-> w.day_of_week, hour_of_day |-> w.hour_of_day,
     time_bucket |-> w.time_bucket, is_outlier |-> is_outlier(w, s)]

\* The SELECT of the INSERT into segments_clean: segments_work2 JOIN segment_stats
Clean(work2, stats) ==
    {CleanRow(p[1], p[2]) : p \in {q \in work2 \X stats : GroupKey(q[1]) = GroupKey(q[2])}}

\* Mutant: the DELETE is left out
DeleteNothing(table) ==
    table

\* DELETE FROM a table, without WHERE
DeleteFrom(table) ==
    {}

\* Mutant: the connection is in autocommit mode, every statement is published
\* as soon as it has run
AutocommitStatement(committed, written) ==
    written

\* What readers see of a table after a statement of build_clean_and_stats wrote
\* it: the statement runs in the transaction sqlite3 opened implicitly, nothing
\* is published before conn.commit() (phase5_clean.py:269)
AfterStatement(committed, written) ==
    committed

\* main(): connect(), init_phase5_tables(conn) on the tables it finds, then
\* the temp tables of build_clean_and_stats (phase5_clean.py:84-143), read
\* from the committed rows of segments
P5BuildWork ==
    /\ p5pc = "idle"
    /\ runsLeft > 0
    /\ runsLeft' = runsLeft - 1
    /\ segments_work2' = HardFilter(segments_work(SubSeq(segments, 1, ncommitted)))
    /\ p5pc' = "delete_stats"
    /\ UNCHANGED <<txn_stats, txn_clean, segment_stats, segments_clean, wlock,
                   mad_z_cutoff, p5done>>
    /\ UNCHANGED cvars

\* DELETE FROM segment_stats: the first statement that writes the database
P5DeleteStats ==
    /\ p5pc = "delete_stats"
    /\ wlock = "free"
    /\ wlock' = "phase5"
    /\ txn_stats' = DeleteFrom(txn_stats)
    /\ segment_stats' = AfterStatement(segment_stats, txn_stats')
    /\ p5pc' = "insert_stats"
    /\ UNCHANGED <<runsLeft, segments_work2, txn_clean, segments_clean,
                   mad_z_cutoff, p5done>>
    /\ UNCHANGED cvars

\* INSERT OR REPLACE INTO segment_stats
P5InsertStats ==
    /\ p5pc = "insert_stats"
    /\ txn_stats' = InsertOrReplace(txn_stats, Stats(segments_work2))
    /\ segment_stats' = AfterStatement(segment_stats, txn_stats')
    /\ p5pc' = "delete_clean"
    /\ UNCHANGED <<runsLeft, segments_work2, txn_clean, segments_clean, wlock,
                   mad_z_cutoff, p5done>>
    /\ UNCHANGED cvars

\* DELETE FROM segments_clean
P5DeleteClean ==
    /\ p5pc = "delete_clean"
    /\ txn_clean' = DeleteFrom(txn_clean)
    /\ segments_clean' = AfterStatement(segments_clean, txn_clean')
    /\ p5pc' = "insert_clean"
    /\ UNCHANGED <<runsLeft, segments_work2, txn_stats, segment_stats, wlock,
                   mad_z_cutoff, p5done>>
    /\ UNCHANGED cvars

\* INSERT INTO segments_clean
P5InsertClean ==
    /\ p5pc = "insert_clean"
    /\ txn_clean' = txn_clean \cup Clean(segments_work2, txn_stats)
    /\ segments_clean' = AfterStatement(segments_clean, txn_clean')
    /\ p5pc' = "commit"
    /\ UNCHANGED <<runsLeft, segments_work2, txn_stats, segment_stats, wlock,
                   mad_z_cutoff, p5done>>
    /\ UNCHANGED cvars

\* conn.commit(), then the reports and the end of the process
P5Commit ==
    /\ p5pc = "commit"
    /\ segment_stats' = txn_stats
    /\ segments_clean' = txn_clean
    /\ wlock' = "free"
    /\ p5pc' = "idle"
    /\ p5done' = p5done + 1
    /\ UNCHANGED <<runsLeft, segments_work2, txn_stats, txn_clean, mad_z_cutoff>>
    /\ UNCHANGED cvars

\* Mutant: what the failed run wrote is committed
CommitOnFailure(committed, written) ==
    written

\* What readers see of a table after the process ended without conn.commit():
\* the open transaction is rolled back
AfterFailure(committed, written) ==
    committed

\* A statement of build_clean_and_stats raises (the database stays locked past
\* the busy timeout, the disk is full, ...): the process ends without
\* conn.commit() and SQLite rolls the open transaction back
P5Fail ==
    /\ p5pc # "idle"
    /\ segment_stats' = AfterFailure(segment_stats, txn_stats)
    /\ segments_clean' = AfterFailure(segments_clean, txn_clean)
    /\ txn_stats' = segment_stats'
    /\ txn_clean' = segments_clean'
    /\ wlock' = IF wlock = "phase5" THEN "free" ELSE wlock
    /\ p5pc' = "idle"
    /\ UNCHANGED <<runsLeft, segments_work2, mad_z_cutoff, p5done>>
    /\ UNCHANGED cvars

-----------------------------------------------------------------------------
(* The store when the collector starts: db_init keeps the tables it finds *)

StoredRow(stop, seen) ==
    Row("R1", "0", "T1", stop, seen)

StoredStates ==
    { << >>,
      [v \in {"V1"} |-> StoredRow("", NullText)],
      [v \in {"V1"} |-> StoredRow("A", JunkText)],
      [v \in Vehicles |-> IF v = "V1" THEN StoredRow("A", NullText)
                          ELSE StoredRow("A", Iso(Sec(0)))],
      [v \in Vehicles |-> StoredRow("A", Iso(Sec(0)))] }

InitLoop ==
    /\ segments = << >>
    /\ ncommitted = 0
    /\ wlock = "free"
    /\ pc = "fetch"
    /\ nacts = 0
    /\ idx = 0
    /\ processed = 0
    /\ skipped = 0
    /\ tickRaised = FALSE
    /\ resets = {}
    /\ last = NoLast
    /\ tick0 = NoTick
    /\ replay = NoReplay
    /\ p5pc = "idle"
    /\ runsLeft = MaxRuns
    /\ segments_work2 = {}
    /\ txn_stats = {}
    /\ txn_clean = {}
    /\ segment_stats = {}
    /\ segments_clean = {}
    /\ mad_z_cutoff = MAD_Z_CUTOFF
    /\ p5done = 0

Init ==
    /\ feed = "general"
    /\ obsLeft = MaxObs
    /\ scen = -1
    /\ vehicle_state \in StoredStates
    /\ InitLoop

\* No stored state for vehicle V1
InitScenario ==
    /\ feed = "scenario"
    /\ obsLeft = Len(Scenario) + 1
    /\ scen = 0
    /\ vehicle_state \in {<< >>, [v \in {"V2"} |-> StoredRow("A", Iso(Sec(0)))]}
    /\ InitLoop

Next ==
    \/ FetchOK
    \/ FetchFail
    \/ LogError
    \/ Process
    \/ CommitTick
    \/ Sleep

Spec ==
    Init /\ [][Next]_vars

SpecScenario ==
    InitScenario /\ [][Next]_vars

\* Both vehicles are tracked when the phase-5 job and the collector start
InitBatch ==
    /\ feed = "batch"
    /\ obsLeft = MaxObs
    /\ scen = -1
    /\ vehicle_state = [v \in Vehicles |-> StoredRow("A", Iso(Sec(0)))]
    /\ InitLoop

\* The collector and the phase-5 job, each a process of its own
NextBatch ==
    \/ FetchOK
    \/ FetchFail
    \/ LogError
    \/ Process
    \/ CommitTick
    \/ Sleep
    \/ P5BuildWork
    \/ P5DeleteStats
    \/ P5InsertStats
    \/ P5DeleteClean
    \/ P5InsertClean
    \/ P5Commit
    \/ P5Fail

SpecBatch ==
    InitBatch /\ [][NextBatch]_vars

\* The collector with the failures of a tick that reach its except clauses.
\* logging.error and time.sleep return.
NextLive ==
    \/ FetchOK
    \/ FetchFail
    \/ TickRaises
    \/ LogError
    \/ Process
    \/ CommitTick
    \/ Sleep

SpecLive ==
    InitBatch /\ [][NextLive]_vars /\ WF_vars(LogError) /\ WF_vars(Sleep)

\* One batch, served to the collector in one order and handled on a second
\* store in another
OrderFailPoints ==
    {"none", "insert", "upsert"}

Batches ==
    [1..MaxBatch -> [act : OrderFeed, fp : OrderFailPoints]]

InitOrder ==
    /\ feed = "order"
    /\ obsLeft = MaxBatch
    /\ scen = -1
    /\ vehicle_state \in {<< >>, [v \in Vehicles |-> StoredRow("A", Iso(Sec(0)))]}
    /\ segments = << >>
    /\ ncommitted = 0
    /\ wlock = "free"
    /\ pc = "fetch"
    /\ nacts = 0
    /\ idx = 0
    /\ processed = 0
    /\ skipped = 0
    /\ tickRaised = FALSE
    /\ resets = {}
    /\ last = NoLast
    /\ tick0 = NoTick
    /\ \E batch \in Batches : \E order \in Orders(batch) :
          replay = [NoReplay EXCEPT !.on = TRUE, !.first = batch, !.second = order,
                                    !.state = vehicle_state]
    /\ p5pc = "idle"
    /\ runsLeft = MaxRuns
    /\ segments_work2 = {}
    /\ txn_stats = {}
    /\ txn_clean = {}
    /\ segment_stats = {}
    /\ segments_clean = {}
    /\ mad_z_cutoff = MAD_Z_CUTOFF
    /\ p5done = 0

NextOrder ==
    \/ FetchOK
    \/ FetchFail
    \/ LogError
    \/ ProcessServed
    \/ CommitTick
    \/ Sleep
    \/ ReplayIterate

SpecOrder ==
    InitOrder /\ [][NextOrder]_vars

-----------------------------------------------------------------------------
(* The phase-5 job alone, on a segments table the collector left *)

MaxRows ==
    4

\* Durations at and around the bounds of both programs.  The bounds of the
\* collector come from its environment, so the table can hold rows that the
\* default bounds of the phase-5 job reject on either side.
SampleSeconds ==
    <<1000, 9, 40, 1801, 10, 1800>>

StoredSegment(from, to, seconds) ==
    [route_id |-> "R1", direction_id |-> "0", vehicle_ref |-> "V1",
     trip_id |-> "T1", from_stop_id |-> from, to_stop_id |-> to,
     depart_time_utc |-> Iso(Sec(0)), arrive_time_utc |-> Iso(Sec(seconds)),
     travel_time_seconds |-> seconds]

\* The k-th of the rows a table is filled with: a hop A->B or B->A and one of
\* the durations
SegmentChoice(k) ==
    IF k % 2 = 1 THEN StoredSegment("A", "B", SampleSeconds[(k + 1) \div 2])
    ELSE StoredSegment("B", "A", SampleSeconds[k \div 2])

\* The tables of at most MaxRows rows, one table for each multiset of rows
\* (the statements of the job do not depend on the order of the ids)
StoredSegments ==
    UNION { { [i \in 1..n |-> SegmentChoice(f[i])] :
              f \in {g \in [1..n -> 1..(2 * Len(SampleSeconds))] :
                        \A i \in 1..n, j \in 1..n : i < j => g[i] <= g[j]} } :
            n \in 0..MaxRows }

\* What an earlier run left in segment_stats and segments_clean when the
\* segments table held other rows
StaleTables ==
    LET work2 == HardFilter(segments_work(<<StoredSegment("C", "A", 40)>>))
    IN  <<Stats(work2), Clean(work2, Stats(work2))>>

\* The tables init_phase5_tables finds: just created, or left by an earlier run
PriorTables ==
    {<<{}, {}>>, StaleTables}

\* The values of PHASE5_MAD_Z_CUTOFF the job is started with
Cutoffs ==
    {0, MAD_Z_CUTOFF}

InitStats ==
    /\ feed = "batch"
    /\ obsLeft = 0
    /\ scen = -1
    /\ vehicle_state = << >>
    /\ segments \in StoredSegments
    /\ ncommitted = Len(segments)
    /\ wlock = "free"
    /\ pc = "fetch"
    /\ nacts = 0
    /\ idx = 0
    /\ processed = 0
    /\ skipped = 0
    /\ tickRaised = FALSE
    /\ resets = {}
    /\ last = NoLast
    /\ tick0 = NoTick
    /\ replay = NoReplay
    /\ p5pc = "idle"
    /\ runsLeft = MaxRuns
    /\ segments_work2 = {}
    /\ mad_z_cutoff \in Cutoffs
    /\ \E prior \in PriorTables :
          /\ segment_stats = prior[1]
          /\ segments_clean = prior[2]
          /\ txn_stats = prior[1]
          /\ txn_clean = prior[2]
    /\ p5done = 0

NextStats ==
    \/ P5BuildWork
    \/ P5DeleteStats
    \/ P5InsertStats
    \/ P5DeleteClean
    \/ P5InsertClean
    \/ P5Commit
    \/ P5Fail

SpecStats ==
    InitStats /\ [][NextStats]_vars

-----------------------------------------------------------------------------
(* The phase-5 job on two groups of samples, one of which holds an injected *)
(* value of ten times the typical duration                                  *)

ScenarioSamples ==
    10

Typical ==
    100

\* The durations of the samples that are not injected
TypicalSeconds ==
    <<Typical - 1, Typical, Typical + 1>>

Injected ==
    10 * Typical

\* n typical samples of the hop from -> to, one sequence for each multiset
TypicalSamples(from, to, n) ==
    { [i \in 1..n |-> StoredSegment(from, to, TypicalSeconds[f[i]])] :
        f \in {g \in [1..n -> DOMAIN TypicalSeconds] :
                  \A i \in 1..n, j \in 1..n : i < j => g[i] <= g[j]} }

\* The tables of the scenario: the group of the hop A->B holds the injected
\* value, the group of the hop B->A does not
ScenarioSegments ==
    { <<StoredSegment("A", "B", Injected)>> \o a \o b :
        a \in TypicalSamples("A", "B", ScenarioSamples - 1),
        b \in TypicalSamples("B", "A", ScenarioSamples) }

InitOutlier ==
    /\ feed = "batch"
    /\ obsLeft = 0
    /\ scen = -1
    /\ vehicle_state = << >>
    /\ segments \in ScenarioSegments
    /\ ncommitted = Len(segments)
    /\ wlock = "free"
    /\ pc = "fetch"
    /\ nacts = 0
    /\ idx = 0
    /\ processed = 0
    /\ skipped = 0
    /\ tickRaised = FALSE
    /\ resets = {}
    /\ last = NoLast
    /\ tick0 = NoTick
    /\ replay = NoReplay
    /\ p5pc = "idle"
    /\ runsLeft = 1
    /\ segments_work2 = {}
    /\ mad_z_cutoff = MAD_Z_CUTOFF
    /\ segment_stats = {}
    /\ segments_clean = {}
    /\ txn_stats = {}
    /\ txn_clean = {}
    /\ p5done = 0

SpecOutlier ==
    InitOutlier /\ [][NextStats]_vars

-----------------------------------------------------------------------------
(* The phase-5 job on one group large enough for its 10th and 90th        *)
(* percentiles to differ from its least and greatest samples              *)

MaxSamples ==
    13

\* Durations at the bounds of the job, just outside them, and between them
PercentileSeconds ==
    <<MIN_SECONDS - 1, MIN_SECONDS, 40, MAX_SECONDS, MAX_SECONDS + 1>>

RECURSIVE Counted(_, _)
\* count[k] rows of the hop A->B with the k-th duration, for k = 1..upto
Counted(count, upto) ==
    IF upto = 0 THEN << >>
    ELSE Counted(count, upto - 1)
         \o [i \in 1..count[upto] |-> StoredSegment("A", "B", PercentileSeconds[upto])]

RECURSIVE Total(_, _)
Total(count, upto) ==
    IF upto = 0 THEN 0 ELSE Total(count, upto - 1) + count[upto]

\* The tables of at most MaxSamples rows of the hop A->B, one table for each
\* multiset of durations
PercentileSegments ==
    { Counted(count, Len(PercentileSeconds)) :
        count \in {c \in [DOMAIN PercentileSeconds -> 0..MaxSamples] :
                     Total(c, Len(PercentileSeconds)) \in 1..MaxSamples} }

InitPercentile ==
    /\ feed = "batch"
    /\ obsLeft = 0
    /\ scen = -1
    /\ vehicle_state = << >>
    /\ segments \in PercentileSegments
    /\ ncommitted = Len(segments)
    /\ wlock = "free"
    /\ pc = "fetch"
    /\ nacts = 0
    /\ idx = 0
    /\ processed = 0
    /\ skipped = 0
    /\ tickRaised = FALSE
    /\ resets = {}
    /\ last = NoLast
    /\ tick0 = NoTick
    /\ replay = NoReplay
    /\ p5pc = "idle"
    /\ runsLeft = 1
    /\ segments_work2 = {}
    /\ mad_z_cutoff = MAD_Z_CUTOFF
    /\ segment_stats = {}
    /\ segments_clean = {}
    /\ txn_stats = {}
    /\ txn_clean = {}
    /\ p5done = 0

SpecPercentile ==
    InitPercentile /\ [][NextStats]_vars

-----------------------------------------------------------------------------
(* Vocabulary of the properties *)

SegsOf(segs, v) ==
    SelectSeq(segs, LAMBDA g : g.vehicle_ref = v)

\* A step that is one iteration of the for loop
Iteration ==
    pc = "loop" /\ idx' = idx + 1

\* The iteration returned from handle_observation for vehicle v
Handled(v) ==
    Iteration /\ last'.vehicle = v /\ last'.branch \in Returned

Appended ==
    Len(segments') = Len(segments) + 1

NewSegment ==
    segments'[Len(segments')]

\* TRACKING(S1, -): a row with a stop
HasStop(st, v) ==
    v \in DOMAIN st /\ st[v].current_stop_id # ""

\* TRACKING(S1, T1): a row with a stop and an anchor that parses
Tracking(st, v) ==
    HasStop(st, v) /\ st[v].current_stop_first_seen_utc.kind = "iso"

\* TRACKING(s, t)
TrackingAt(st, v, s, t) ==
    /\ v \in DOMAIN st
    /\ st[v].current_stop_id = s
    /\ st[v].current_stop_first_seen_utc = Iso(t)

\* arrive_at - depart_at of a stored segment, in ticks
Elapsed(g) ==
    g.arrive_time_utc.t - g.depart_time_utc.t

Stamped(g) ==
    g.depart_time_utc.kind = "iso" /\ g.arrive_time_utc.kind = "iso"

-----------------------------------------------------------------------------
(* C1 *)

\* C1: when a segment is emitted for a vehicle that already has a segment and
\* was not reset (first sighting, broken state, implausible duration) since,
\* the earlier segment's to_stop_id is the later segment's from_stop_id.
C1_Continuity ==
    [][ (/\ Iteration
         /\ Appended
         /\ SegsOf(segments, NewSegment.vehicle_ref) # << >>
         /\ NewSegment.vehicle_ref \notin resets)
        => LET earlier == SegsOf(segments, NewSegment.vehicle_ref)
           IN  earlier[Len(earlier)].to_stop_id = NewSegment.from_stop_id ]_vars

-----------------------------------------------------------------------------
(* C2 *)

\* C2, as claimed: every stored segment has depart_at <= arrive_at,
\* travel_time_seconds = arrive_at - depart_at, and travel_time_seconds within
\* [MIN_SEGMENT_SECONDS, MAX_SEGMENT_SECONDS].
C2_ExactDuration ==
    \A k \in DOMAIN segments :
        LET g == segments[k]
        IN  /\ Stamped(g)
            /\ Elapsed(g) >= 0
            /\ g.travel_time_seconds * TicksPerSecond = Elapsed(g)
            /\ g.travel_time_seconds >= MIN_SEGMENT_SECONDS
            /\ g.travel_time_seconds <= MAX_SEGMENT_SECONDS

\* C2, amended: travel_time_seconds is arrive_at - depart_at cut to whole
\* seconds (0 <= (arrive_at - depart_at) - travel_time_seconds < 1 s); the rest
\* as claimed.
C2_WholeSecondDuration ==
    \A k \in DOMAIN segments :
        LET g == segments[k]
        IN  /\ Stamped(g)
            /\ Elapsed(g) >= 0
            /\ g.travel_time_seconds * TicksPerSecond <= Elapsed(g)
            /\ Elapsed(g) < (g.travel_time_seconds + 1) * TicksPerSecond
            /\ g.travel_time_seconds >= MIN_SEGMENT_SECONDS
            /\ g.travel_time_seconds <= MAX_SEGMENT_SECONDS

\* A stored segment between instants that are not a whole number of seconds
\* apart, emitted after an observation that went back in time.
C2_Witness ==
    /\ \E k \in DOMAIN segments :
          segments[k].travel_time_seconds * TicksPerSecond # Elapsed(segments[k])
    /\ \E k \in DOMAIN segments : segments[k].travel_time_seconds = MAX_SEGMENT_SECONDS
    /\ "V1" \in resets

-----------------------------------------------------------------------------
(* C3 *)

\* C3: an observation of the stop a vehicle in TRACKING(S1,T1) is already
\* heading to emits no segment and keeps current_stop_id and the anchor; and
\* an observation that starts a run (any other branch that returns) sets the
\* anchor to its own instant, so the anchor of a run is the instant of the
\* run's first observation.
C3_SameStopKeepsAnchor ==
    [][ \A v \in Vehicles :
          /\ (Handled(v) /\ Tracking(vehicle_state, v)
                /\ last'.stop = vehicle_state[v].current_stop_id)
             => /\ segments' = segments
                /\ vehicle_state'[v].current_stop_id = vehicle_state[v].current_stop_id
                /\ vehicle_state'[v].current_stop_first_seen_utc
                     = vehicle_state[v].current_stop_first_seen_utc
                /\ \A w \in DOMAIN vehicle_state \ {v} :
                      vehicle_state'[w] = vehicle_state[w]
          /\ (Handled(v) /\ ~(HasStop(vehicle_state, v)
                               /\ last'.stop = vehicle_state[v].current_stop_id))
             => TrackingAt(vehicle_state', v, last'.stop, last'.at) ]_vars

\* A same-stop observation, later than the anchor, has been handled for a
\* vehicle whose anchor parses.
C3_Witness ==
    /\ last.branch = "same"
    /\ Tracking(vehicle_state, last.vehicle)
    /\ last.at > vehicle_state[last.vehicle].current_stop_first_seen_utc.t

-----------------------------------------------------------------------------
(* C4 *)

Leg(from, to, depart, arrive, seconds) ==
    [route_id |-> "R1", direction_id |-> "0", vehicle_ref |-> "V1", trip_id |-> "T1",
     from_stop_id |-> from, to_stop_id |-> to,
     depart_time_utc |-> Iso(Sec(depart)), arrive_time_utc |-> Iso(Sec(arrive)),
     travel_time_seconds |-> seconds]

Durations(segs) ==
    [k \in DOMAIN segs |-> <<segs[k].from_stop_id, segs[k].to_stop_id,
                             segs[k].travel_time_seconds>>]

\* C4, as claimed: after A at 0 s, B at 40 s, B at 70 s, C at 500 s, vehicle V1
\* has exactly the segments A->B of 40 s and B->C of 430 s.
C4_ScenarioAsClaimed ==
    scen = Len(Scenario)
        => Durations(SegsOf(segments, "V1")) = << <<"A", "B", 40>>, <<"B", "C", 430>> >>

\* C4, amended: exactly the segments A->B of 40 s (0 s to 40 s) and B->C of
\* 460 s (40 s to 500 s); the observation at 70 s emits nothing and leaves the
\* anchor at 40 s.
C4_Scenario ==
    /\ scen = Len(Scenario)
          => SegsOf(segments, "V1")
               = << Leg("A", "B", 0, 40, 40), Leg("B", "C", 40, 500, 460) >>
    /\ scen = 3
          => /\ SegsOf(segments, "V1") = << Leg("A", "B", 0, 40, 40) >>
             /\ TrackingAt(vehicle_state, "V1", "B", Sec(40))

C4_Witness ==
    scen = Len(Scenario) /\ "V2" \in DOMAIN vehicle_state

-----------------------------------------------------------------------------
(* C5 *)

\* C5, as claimed: for a vehicle in TRACKING(S1,T1), a handled observation
\* (S2,T2) with S2 # S1 and T2 - T1 outside
\* [MIN_SEGMENT_SECONDS, MAX_SEGMENT_SECONDS] emits nothing and leaves
\* TRACKING(S2,T2).
C5_AnyGapOutside ==
    [][ \A v \in Vehicles :
          (/\ Handled(v)
           /\ Tracking(vehicle_state, v)
           /\ last'.stop # vehicle_state[v].current_stop_id
           /\ LET gap == last'.at - vehicle_state[v].current_stop_first_seen_utc.t
              IN  \/ gap < MIN_SEGMENT_SECONDS * TicksPerSecond
                  \/ gap > MAX_SEGMENT_SECONDS * TicksPerSecond)
          => /\ segments' = segments
             /\ TrackingAt(vehicle_state', v, last'.stop, last'.at) ]_vars

\* C5, amended: the same, for T2 - T1 below MIN_SEGMENT_SECONDS or at least
\* MAX_SEGMENT_SECONDS + 1 s (the gap is cut to whole seconds before it is
\* compared).
C5_WholeSecondGapOutside ==
    [][ \A v \in Vehicles :
          (/\ Handled(v)
           /\ Tracking(vehicle_state, v)
           /\ last'.stop # vehicle_state[v].current_stop_id
           /\ LET gap == last'.at - vehicle_state[v].current_stop_first_seen_utc.t
              IN  \/ gap < MIN_SEGMENT_SECONDS * TicksPerSecond
                  \/ gap >= (MAX_SEGMENT_SECONDS + 1) * TicksPerSecond)
          => /\ segments' = segments
             /\ TrackingAt(vehicle_state', v, last'.stop, last'.at) ]_vars

\* The example of the claim: A at 0 s, then B at 2 s.
C5_Witness ==
    /\ last.branch = "bounds"
    /\ last.vehicle = "V1"
    /\ TrackingAt(vehicle_state, "V1", "B", Sec(2))
    /\ segments = << >>

-----------------------------------------------------------------------------
(* C6 *)

\* C6: for a vehicle whose row has a stop and an anchor that is missing or
\* does not parse, any handled observation (S2,T2) emits nothing and leaves
\* TRACKING(S2,T2).
C6_BrokenStateRecovers ==
    [][ \A v \in Vehicles :
          (Handled(v) /\ HasStop(vehicle_state, v) /\ ~Tracking(vehicle_state, v))
          => /\ segments' = segments
             /\ TrackingAt(vehicle_state', v, last'.stop, last'.at) ]_vars

-----------------------------------------------------------------------------
(* C7 *)

\* C7: an iteration changes no row of vehicle_state but the observed
\* vehicle's, which it writes when the observation is handled; it appends at
\* most one segment and leaves the stored segments as they are; no other step
\* of the collector touches either table.
C7_OneRowOneSegment ==
    [][ /\ \A w \in Vehicles :
             (Iteration /\ w # last'.vehicle)
             => /\ (w \in DOMAIN vehicle_state') = (w \in DOMAIN vehicle_state)
                /\ w \in DOMAIN vehicle_state => vehicle_state'[w] = vehicle_state[w]
        /\ \A v \in Vehicles :
             Handled(v) => /\ v \in DOMAIN vehicle_state'
                           /\ vehicle_state'[v].current_stop_id = last'.stop
        /\ Iteration => \/ segments' = segments
                        \/ Appended /\ SubSeq(segments', 1, Len(segments)) = segments
        /\ ~Iteration => segments' = segments /\ vehicle_state' = vehicle_state
      ]_vars

\* A segment was just emitted for one vehicle while the other has a row.
C7_Witness ==
    /\ last.branch = "emit"
    /\ Len(segments) >= 1
    /\ \E w \in DOMAIN vehicle_state : w # last.vehicle

-----------------------------------------------------------------------------
(* C8 *)

\* A field of a raw report is absent
IsAbsent(leaf) ==
    leaf.shape = "absent"

LacksMandatory(act) ==
    \/ IsAbsent(act.StopPointRef)
    \/ IsAbsent(act.VehicleRef)
    \/ act.RecordedAtTime.kind # "iso"

HasMandatory(act) ==
    /\ act.StopPointRef.shape \in {"plain", "value", "single"} /\ act.StopPointRef.val # ""
    /\ act.VehicleRef.shape \in {"plain", "value", "single"} /\ act.VehicleRef.val # ""
    /\ act.RecordedAtTime.kind = "iso"

-----------------------------------------------------------------------------
(* C9 *)

-----------------------------------------------------------------------------
(* C10 *)

\* What a reader of the two tables sees
Published ==
    <<segment_stats, segments_clean>>

\* The complete contents a run writes from the rows segs of segments
RunOutput(segs) ==
    LET work2 == HardFilter(segments_work(segs))
    IN  <<Stats(work2), Clean(work2, Stats(work2))>>

\* Both tables hold the complete contents of one run
CompleteRun(tables) ==
    \E k \in 0..Len(segments) : tables = RunOutput(SubSeq(segments, 1, k))

\* C10: atomic publish.  At every moment a reader of segment_stats and
\* segments_clean sees, for both tables, the complete contents of one run; a
\* step either leaves what the reader sees as the previous run left it, or
\* is the commit of the running job and shows the complete contents that job
\* computed from its snapshot of segments, never a state between the two.
C10_AtomicPublish ==
    [][/\ CompleteRun(Published)
       /\ CompleteRun(Published')
       /\ \/ Published' = Published
          \/ /\ p5pc = "commit"
             /\ p5pc' = "idle"
             /\ Published' = <<Stats(segments_work2),
                               Clean(segments_work2, Stats(segments_work2))>>]_vars

\* A second run has deleted and rebuilt both tables in its transaction, with
\* other contents than the previous run published, while the collector is in
\* the middle of a tick: readers still see the previous run's rows
C10_Witness ==
    /\ p5pc = "commit"
    /\ pc = "loop"
    /\ segment_stats # {}
    /\ segments_clean # {}
    /\ txn_stats # {}
    /\ txn_stats # segment_stats
    /\ txn_clean # segments_clean

-----------------------------------------------------------------------------
(* C11 *)

\* A step that is the commit of a run of the phase-5 job
RunCommits ==
    p5pc = "commit" /\ p5done' = p5done + 1

\* C11: idempotence.  On a segments table that does not change, every run
\* that commits leaves in segment_stats and segments_clean the contents
\* computed from the segments table alone, whatever the two tables held
\* before; a run that follows a completed run leaves both tables exactly as
\* that run left them.
C11_Idempotent ==
    [][RunCommits =>
          /\ Published' = RunOutput(segments)
          /\ (p5done >= 1 => Published' = Published)]_vars

\* Two runs have committed on the same non-empty segments table
C11_Witness ==
    /\ p5done = 2
    /\ segment_stats # {}
    /\ segments_clean # {}
    /\ Len(segments) = MaxRows

-----------------------------------------------------------------------------
(* C12 *)

\* The rows of segments_clean in the group of a row of segment_stats
CleanGroup(s) ==
    {c \in segments_clean : GroupKey(c) = GroupKey(s)}

RECURSIVE Ascending(_)
\* The values of f in ascending order
Ascending(f) ==
    IF DOMAIN f = {} THEN << >>
    ELSE LET w == CHOOSE u \in DOMAIN f : \A v \in DOMAIN f : f[u] <= f[v]
         IN  <<f[w]>> \o Ascending([u \in DOMAIN f \ {w} |-> f[u]])

\* The standard median: the middle value of an odd number of values, the mean
\* of the two middle values of an even number
StandardMedian(f) ==
    LET sorted == Ascending(f)
        n == Len(sorted)
    IN  IF n % 2 = 1 THEN sorted[(n + 1) \div 2]
        ELSE (sorted[n \div 2] + sorted[(n \div 2) + 1]) \div 2

\* C12: for every group of bounds-filtered durations, median_seconds is the
\* standard median of the group's durations and mad_seconds is the standard
\* median of their absolute deviations from that median.
C12_StandardMedianMad ==
    \A s \in segment_stats :
        LET x == [c \in CleanGroup(s) |-> RealScale * c.travel_time_seconds]
            median == StandardMedian(x)
        IN  /\ CleanGroup(s) # {}
            /\ s.median_seconds = median
            /\ s.mad_seconds = StandardMedian([c \in DOMAIN x |-> Abs(x[c] - median)])

\* A run has published a group of three durations with a tie and a median
\* that differs from the tie, and a group of one
C12_Witness ==
    /\ p5done >= 1
    /\ \E s \in segment_stats :
          /\ s.sample_count = 3
          /\ Cardinality({c.travel_time_seconds : c \in CleanGroup(s)}) = 2
    /\ \E s \in segment_stats : s.sample_count = 1

-----------------------------------------------------------------------------
(* C13 *)

\* The row of segment_stats of the group of a row of segments_clean
StatsOf(c) ==
    CHOOSE s \in segment_stats : GroupKey(s) = GroupKey(c)

\* |x - median_seconds| of a row of segments_clean, times RealScale
Deviation(c) ==
    Abs(RealScale * c.travel_time_seconds - StatsOf(c).median_seconds)

\* |0.6745 * (x - median_seconds) / mad_seconds| compared with the cutoff,
\* both sides multiplied by 10000 * mad_seconds (mad_seconds > 0)
ZAboveCutoff(c) ==
    6745 * Deviation(c) > 10000 * mad_z_cutoff * StatsOf(c).mad_seconds

ZAtCutoff(c) ==
    6745 * Deviation(c) = 10000 * mad_z_cutoff * StatsOf(c).mad_seconds

\* C13: after a completed run every row of segments_clean has the stats of
\* its group; is_outlier is false when mad_seconds is 0, and otherwise true
\* exactly when the modified z-score is strictly above the cutoff.
C13_OutlierRule ==
    p5done >= 1 =>
        \A c \in segments_clean :
            /\ \E s \in segment_stats : GroupKey(s) = GroupKey(c)
            /\ c.is_outlier \in {0, 1}
            /\ StatsOf(c).mad_seconds = 0 => c.is_outlier = 0
            /\ StatsOf(c).mad_seconds # 0 => (c.is_outlier = 1 <=> ZAboveCutoff(c))

\* A completed run left a flagged row, an unflagged row whose z-score equals
\* the cutoff in a group with mad_seconds > 0, and an unflagged row in a group
\* with mad_seconds = 0
C13_Witness ==
    /\ p5done >= 1
    /\ \E c \in segments_clean : c.is_outlier = 1
    /\ \E c \in segments_clean :
          StatsOf(c).mad_seconds > 0 /\ ZAtCutoff(c) /\ c.is_outlier = 0
    /\ \E c \in segments_clean :
          StatsOf(c).mad_seconds = 0 /\ c.is_outlier = 0

-----------------------------------------------------------------------------
(* C14 *)

\* All durations of the group of a row of segment_stats are the same
Identical(s) ==
    Cardinality({c.travel_time_seconds : c \in CleanGroup(s)}) = 1

\* C14: after a completed run, started with any cutoff, a group whose
\* durations are all identical has mad_seconds = 0 and no flagged segment.
C14_IdenticalGroup ==
    p5done >= 1 =>
        \A s \in segment_stats :
            Identical(s) =>
                /\ s.mad_seconds = 0
                /\ \A c \in CleanGroup(s) : c.is_outlier = 0

\* A run started with cutoff 0 has published a group of MaxRows identical
\* durations
C14_Witness ==
    /\ p5done >= 1
    /\ mad_z_cutoff = 0
    /\ \E s \in segment_stats : Identical(s) /\ s.sample_count = MaxRows

-----------------------------------------------------------------------------
(* C15 *)

\* The ids of the raw segments whose duration lies in [MIN_SECONDS, MAX_SECONDS]
InBoundsIds ==
    {i \in 1..Len(segments) :
        /\ segments[i].travel_time_seconds >= MIN_SECONDS
        /\ segments[i].travel_time_seconds <= MAX_SECONDS}

\* The fields a row of segments_clean takes over from the raw segment
SegmentFields(r) ==
    [route_id |-> r.route_id, direction_id |-> r.direction_id,
     vehicle_ref |-> r.vehicle_ref, trip_id |-> r.trip_id,
     from_stop_id |-> r.from_stop_id, to_stop_id |-> r.to_stop_id,
     depart_time_utc |-> r.depart_time_utc, arrive_time_utc |-> r.arrive_time_utc,
     travel_time_seconds |-> r.travel_time_seconds]

\* The in-bounds raw segments of the group of a row of segment_stats
InBoundsGroup(s) ==
    {w \in segments_work(segments) : w.id \in InBoundsIds /\ GroupKey(w) = GroupKey(s)}

\* C15: after a completed run on the segments table, segments_clean holds
\* exactly one row for each raw segment whose duration lies in
\* [MIN_SECONDS, MAX_SECONDS], under the id and with the fields of that
\* segment, and no row for any other segment; the statistics of a group are
\* those of its in-bounds segments alone.
C15_BoundsFilter ==
    p5done >= 1 =>
        /\ {c.id : c \in segments_clean} = InBoundsIds
        /\ Cardinality(segments_clean) = Cardinality(InBoundsIds)
        /\ \A c \in segments_clean : SegmentFields(c) = segments[c.id]
        /\ \A s \in segment_stats :
              LET x == [w \in InBoundsGroup(s) |-> RealScale * w.travel_time_seconds]
                  median == StandardMedian(x)
              IN  /\ s.sample_count = Cardinality(InBoundsGroup(s))
                  /\ s.sample_count >= 1
                  /\ s.median_seconds = median
                  /\ s.mad_seconds =
                        StandardMedian([w \in DOMAIN x |-> Abs(x[w] - median)])
                  /\ \E w \in InBoundsGroup(s) : s.p10_seconds = x[w]
                  /\ \E w \in InBoundsGroup(s) : s.p90_seconds = x[w]

\* A completed run on a table that holds a segment at each bound and a
\* segment just outside each bound, in one group
C15_Witness ==
    /\ p5done >= 1
    /\ \A x \in {MIN_SECONDS - 1, MIN_SECONDS, MAX_SECONDS, MAX_SECONDS + 1} :
          \E i \in 1..Len(segments) :
              segments[i].travel_time_seconds = x /\ segments[i].from_stop_id = "A"
    /\ Cardinality(segments_clean) = 2

-----------------------------------------------------------------------------
(* C16 *)

\* The store is as the running tick found it
TickChangedNothing ==
    tick0 = TickBegin(vehicle_state, segments)

\* C16 as stated: a tick that failed, at the fetch or later, has changed no
\* vehicle state and emitted no segment.
C16_FailedTickChangesNothing ==
    pc = "failed" => TickChangedNothing

\* C16: a failure of a tick never ends the loop.  The failure itself writes
\* nothing and rolls nothing back; a tick whose fetch failed has changed no
\* vehicle state and emitted no segment; after a failed tick the loop sleeps
\* and comes back to the fetch.
C16_LoopSurvivesFailure ==
    /\ [][pc' = "failed" =>
            /\ vehicle_state' = vehicle_state
            /\ segments' = segments
            /\ (pc = "fetch" => TickChangedNothing')]_vars
    /\ (pc = "failed") ~> (pc = "sleep")
    /\ (pc = "failed") ~> (pc = "fetch")

\* A tick failed after it had emitted a segment
C16_Witness ==
    /\ pc = "failed"
    /\ idx >= 1
    /\ Len(segments) > tick0.nsegs

-----------------------------------------------------------------------------
(* C17 *)

\* A step in which a run of the phase-5 job ends without its commit
RunFails ==
    p5pc # "idle" /\ p5pc' = "idle" /\ p5done' = p5done

\* C17: no step of a run other than its commit changes what segment_stats and
\* segments_clean hold for readers; when a run fails, at whatever statement,
\* both tables hold what they held before the run started and the writes of
\* the run are gone.
C17_FailedRunCommitsNothing ==
    [][/\ ~RunCommits => Published' = Published
       /\ RunFails => <<txn_stats', txn_clean'>> = Published]_vars

\* Two runs were started on a table with in-bounds segments; one completed
\* and one failed: the tables hold the rows of the completed run
C17_Witness ==
    /\ p5done = 1
    /\ runsLeft = 0
    /\ p5pc = "idle"
    /\ segment_stats # {}
    /\ <<txn_stats, txn_clean>> = Published
    /\ Published = RunOutput(segments)

\* C18: two processing orders of one batch, each keeping the order of every
\* vehicle's own observations, end in the same vehicle_state rows and the same
\* segments (their ids, which are their positions, apart): once the for loop
\* has been left on both stores, the two stores hold the same state for every
\* vehicle and, vehicle by vehicle, the same segments.
SegmentSet(segs) ==
    {segs[i] : i \in DOMAIN segs}

SameOutcome ==
    /\ replay.state = vehicle_state
    /\ SegmentSet(replay.segments) = SegmentSet(segments)
    /\ \A v \in Vehicles : SegsOf(replay.segments, v) = SegsOf(segments, v)

\* The collector took the whole batch in one tick and the tick is over; the
\* for loop on the second store is over too
BothOrdersDone ==
    /\ replay.on
    /\ nacts = Len(replay.first)
    /\ obsLeft = 0
    /\ pc \in {"failed", "sleep"}
    /\ replay.left \/ replay.pos = Len(replay.second)

C18_OrderIndependent ==
    BothOrdersDone => SameOutcome

\* The same, for the batches on whose activities extract_fields returns
EveryActivityExtracted ==
    \A i \in DOMAIN replay.first : ~extract_fields_raises(replay.first[i].act)

OrderIndependentWhenExtracted ==
    (BothOrdersDone /\ EveryActivityExtracted) => SameOutcome

\* Both vehicles emitted a segment, and the two orders differ in which came first
OrdersDiffer ==
    /\ BothOrdersDone
    /\ EveryActivityExtracted
    /\ Len(segments) = 2
    /\ Len(replay.segments) = 2
    /\ segments[1].vehicle_ref # replay.segments[1].vehicle_ref

-----------------------------------------------------------------------------
(* C19 *)

InjectedRows ==
    {c \in segments_clean : c.travel_time_seconds = Injected}

FlaggedRows ==
    {c \in segments_clean : c.is_outlier = 1}

\* C19: two groups of ScenarioSamples samples, one of them with a single value
\* of ten times the typical duration and mad_seconds > 0, cutoff 6.0: after a
\* completed run the injected row is flagged and no other row of either group
\* is.  The samples that are not injected are typical: each lies within one
\* second of the typical duration.
C19_OnlyInjectedFlagged ==
    (/\ p5done >= 1
     /\ mad_z_cutoff = MAD_Z_CUTOFF
     /\ Cardinality(segment_stats) = 2
     /\ \A s \in segment_stats : s.sample_count = ScenarioSamples
     /\ Cardinality(InjectedRows) = 1
     /\ \A c \in InjectedRows : StatsOf(c).mad_seconds > 0)
    => FlaggedRows = InjectedRows

\* The scenario has run: both groups have mad_seconds > 0 and the typical
\* samples of both differ among themselves
C19_Witness ==
    /\ p5done >= 1
    /\ mad_z_cutoff = MAD_Z_CUTOFF
    /\ Cardinality(segment_stats) = 2
    /\ \A s \in segment_stats :
          /\ s.sample_count = ScenarioSamples
          /\ s.mad_seconds > 0
          /\ Cardinality({c.travel_time_seconds : c \in CleanGroup(s)} \ {Injected}) = 3
    /\ Cardinality(InjectedRows) = 1
    /\ Cardinality(segments_clean) = 2 * ScenarioSamples
    /\ FlaggedRows = InjectedRows

-----------------------------------------------------------------------------
(* C20 *)

\* The durations of the group of a row of segment_stats, times RealScale, in
\* ascending order
Ranked(s) ==
    Ascending([c \in CleanGroup(s) |-> RealScale * c.travel_time_seconds])

\* The average of the values at the ranks lo and hi that exist (-1: none does)
MeanAtRanks(sorted, lo, hi) ==
    LET ranks == {lo, hi} \cap DOMAIN sorted
    IN  IF ranks = {} THEN -1
        ELSE IF Cardinality(ranks) = 1 THEN sorted[CHOOSE r \in ranks : TRUE]
        ELSE (sorted[lo] + sorted[hi]) \div 2

\* The ceiling of m / 2
CeilHalf(m) ==
    (m + 1) \div 2

\* The floor of m / 2, the integer division of SQLite
FloorHalf(m) ==
    m \div 2

\* C20, as stated: median_seconds of a group of n samples is the average of
\* the values at the ranks ceil((n+1)/2) and ceil((n+2)/2).
C20_MedianAtCeilRanks ==
    \A s \in segment_stats :
        LET n == Len(Ranked(s))
        IN  s.median_seconds = MeanAtRanks(Ranked(s), CeilHalf(n + 1), CeilHalf(n + 2))

\* C20, amended: median_seconds of a group of n >= 1 samples is the average
\* of the values at the ranks floor((n+1)/2) and floor((n+2)/2).
C20_MedianAtFloorRanks ==
    \A s \in segment_stats :
        LET n == Len(Ranked(s))
        IN  /\ n >= 1
            /\ n = s.sample_count
            /\ s.median_seconds = MeanAtRanks(Ranked(s), FloorHalf(n + 1), FloorHalf(n + 2))

\* A run has published a group of an even number of samples, four or more,
\* whose two middle values differ and a median that is neither of them
C20_Witness ==
    /\ p5done >= 1
    /\ \E s \in segment_stats :
          LET n == Len(Ranked(s))
          IN  /\ n >= 4
              /\ n % 2 = 0
              /\ Ranked(s)[FloorHalf(n + 1)] # Ranked(s)[CeilHalf(n + 2)]
              /\ s.median_seconds # Ranked(s)[CeilHalf(n + 1)]

-----------------------------------------------------------------------------
(* C21 *)

\* The least integer that is at least n * tenths / 10
NearestRank(n, tenths) ==
    CHOOSE r \in 0..n : 10 * r >= n * tenths /\ 10 * (r - 1) < n * tenths

InBoundsScaled(v) ==
    RealScale * MIN_SECONDS <= v /\ v <= RealScale * MAX_SECONDS

\* C21: for every group of n >= 1 samples in ascending order, p10_seconds is
\* the sample at rank ceil(0.10 * n) and p90_seconds the sample at rank
\* ceil(0.90 * n); p10_seconds <= median_seconds <= p90_seconds, and the three
\* lie between MIN_SECONDS and MAX_SECONDS.
C21_NearestRankPercentiles ==
    \A s \in segment_stats :
        LET n == Len(Ranked(s))
        IN  /\ n >= 1
            /\ NearestRank(n, 1) \in 1..n
            /\ NearestRank(n, 9) \in 1..n
            /\ s.p10_seconds = Ranked(s)[NearestRank(n, 1)]
            /\ s.p90_seconds = Ranked(s)[NearestRank(n, 9)]
            /\ s.p10_seconds <= s.median_seconds
            /\ s.median_seconds <= s.p90_seconds
            /\ InBoundsScaled(s.p10_seconds)
            /\ InBoundsScaled(s.median_seconds)
            /\ InBoundsScaled(s.p90_seconds)

\* A run has published a group whose 10th percentile is not its least sample
\* and whose 90th percentile is not its greatest, from a table that also held
\* durations outside the bounds
C21_Witness ==
    /\ p5done >= 1
    /\ \E i \in DOMAIN segments : segments[i].travel_time_seconds < MIN_SECONDS
    /\ \E i \in DOMAIN segments : segments[i].travel_time_seconds > MAX_SECONDS
    /\ \E s \in segment_stats :
          LET n == Len(Ranked(s))
          IN  /\ n = s.sample_count
              /\ NearestRank(n, 1) > 1
              /\ NearestRank(n, 9) < n
              /\ s.p10_seconds # Ranked(s)[1]
              /\ s.p90_seconds # Ranked(s)[n]

-----------------------------------------------------------------------------
(* C22 *)

\* The stored state of the vehicle of segment g is TRACKING(S1, T1), the
\* departure side of g
AtDeparture(st, g) ==
    /\ g.depart_time_utc.kind = "iso"
    /\ TrackingAt(st, g.vehicle_ref, g.from_stop_id, g.depart_time_utc.t)

\* C22: a stop transition is recorded once, also when a store failure
\* interrupts its handling: the iteration that stores the segment S1->S2 of a
\* vehicle does not leave the vehicle's state at TRACKING(S1, T1), from where
\* the next observation would store a second segment with the same departure.
C22_RecordedOnce ==
    [][ (Iteration /\ Appended) => ~AtDeparture(vehicle_state', NewSegment) ]_vars

\* Two committed segments of one vehicle with the same departure, the second
\* stored after a handling that a store failure interrupted
RecordedTwice ==
    /\ pc = "sleep"
    /\ tickRaised
    /\ ncommitted = Len(segments)
    /\ \E i, j \in 1..ncommitted :
          /\ i < j
          /\ segments[i].vehicle_ref = segments[j].vehicle_ref
          /\ segments[i].from_stop_id = segments[j].from_stop_id
          /\ segments[i].depart_time_utc = segments[j].depart_time_utc

-----------------------------------------------------------------------------
(* C23 *)

\* The two tables describe one set of rows: every row of clean has a row of
\* stats with its GroupKey, stats has one row for each GroupKey and none for a
\* GroupKey without rows, and sample_count counts the rows of the group
OneSnapshot(stats, clean) ==
    /\ \A c \in clean : \E s \in stats : GroupKey(s) = GroupKey(c)
    /\ \A s, t \in stats : GroupKey(s) = GroupKey(t) => s = t
    /\ \A s \in stats :
          /\ s.sample_count >= 1
          /\ s.sample_count = Cardinality({c \in clean : GroupKey(c) = GroupKey(s)})

\* The committed rows of segments that pass the hard filter
InBoundsNow ==
    HardFilter(segments_work(SubSeq(segments, 1, ncommitted)))

\* C23: segment_stats and segments_clean describe the same snapshot of
\* segments, also when the collector commits segments while the job runs: what
\* a completed run publishes, and so what any reader sees at any time, is one
\* row of segment_stats for each GroupKey of segments_clean, with sample_count
\* the number of rows of segments_clean in the group.
C23_SameSnapshot ==
    /\ OneSnapshot(segment_stats, segments_clean)
    /\ p5pc = "commit" => OneSnapshot(txn_stats, txn_clean)

\* A run is about to commit tables built from a snapshot that lacks an
\* in-bounds segment the collector has committed since
C23_Witness ==
    /\ p5pc = "commit"
    /\ txn_clean # {}
    /\ \E w \in InBoundsNow : \A c \in txn_clean : c.id # w.id
    /\ \E s \in txn_stats, w \in InBoundsNow :
          /\ GroupKey(s) = GroupKey(w)
          /\ \A c \in txn_clean : c.id # w.id

-----------------------------------------------------------------------------
(* C24 *)

\* C24: when handle_observation returns for an observation of vehicle v with
\* next_stop_id S2, the row of v has current_stop_id = S2, which is not empty,
\* whichever branch was taken; and no step removes a row of vehicle_state or
\* empties its current_stop_id.
C24_StateAfterHandling ==
    [][ /\ \A v \in Vehicles :
              Handled(v) => /\ HasStop(vehicle_state', v)
                            /\ last'.stop # ""
                            /\ vehicle_state'[v].current_stop_id = last'.stop
        /\ \A v \in DOMAIN vehicle_state :
              /\ v \in DOMAIN vehicle_state'
              /\ HasStop(vehicle_state, v) => HasStop(vehicle_state', v)
      ]_vars

\* The broken-state branch has just returned for a vehicle whose stop changed;
\* a segment was emitted before and every vehicle has a row
C24_Witness ==
    /\ last.branch = "broken"
    /\ TrackingAt(vehicle_state, last.vehicle, last.stop, last.at)
    /\ DOMAIN vehicle_state = Vehicles
    /\ segments # << >>

====
